---- MODULE Spec2Model ----
(***************************************************************************)
(* A model of the RESP codec of src/lib.rs: RespType::from_bytes (decode)  *)
(* and RespType::as_bytes (encode), with the private helpers read_string,  *)
(* read_bulk_string, read_array and read_line.                             *)
(*                                                                         *)
(* Bytes are naturals 0..255, byte slices and Vec<u8> are sequences of     *)
(* bytes, a String is the sequence of its UTF-8 bytes.  i64 and usize are  *)
(* scaled down (I64_MAX below) because TLC's integers are 32 bits wide;    *)
(* the relation usize::MAX = 2 * i64::MAX + 1 is kept.                     *)
(***************************************************************************)
EXTENDS Integers, Sequences, FiniteSets, TLC

VARIABLES
    self,    \* the RespType value the caller holds (argument of as_bytes)
    bytes,   \* the caller's byte buffer (argument of from_bytes)
    ret,     \* what the last from_bytes call returned
    v2,      \* the second value of a pipelined buffer
    tail,    \* the bytes that follow the second value of a pipelined buffer
    hist,    \* the operations the caller has performed so far, in order
    build,   \* the build profile: overflow checks on (debug) or off (release)
    input    \* the buffer the caller received, of which bytes is a suffix

vars == <<self, bytes, ret, v2, tail, hist, build, input>>

----------------------------------------------------------------------------
(* Bounds of the model *)

\* i64::MAX scaled down; i64::MIN and usize::MAX are derived from it.
I64_MAX == 31
\* longest SimpleString / Error text, in bytes, of a constructed value
MaxText == 3
\* longest BulkString payload of a constructed value
MaxBulk == 3
\* longest Array of a constructed value
MaxArray == 2
\* longest line after ':' in a received buffer
MaxLine == 3
\* longest buffer after a '$' size line in a received buffer
MaxRest == 4
\* largest number of chunks after a '*' size line in a received buffer
MaxChunks == 3
\* longest unstructured received buffer
MaxRaw == 3

I64_MIN == -I64_MAX - 1
\* 2^64 in the scale of I64_MAX: usize arithmetic is modulo USIZE_MOD
USIZE_MOD == 2 * I64_MAX + 2

----------------------------------------------------------------------------
(* Bytes *)

PLUS == 43
MINUS == 45
COLON == 58
DOLLAR == 36
STAR == 42
CR == 13
LF == 10
ZERO == 48
NINE == 57
SPACE == 32
LETTER_A == 97
QUESTION == 63
\* the two bytes of U+00E9, a two-byte UTF-8 character
E_ACUTE_1 == 195
E_ACUTE_2 == 169
\* a byte that occurs in no UTF-8 text
BAD == 255

CRLF == <<CR, LF>>

BuildDebug == "debug"
BuildRelease == "release"
Builds == {BuildDebug, BuildRelease}

----------------------------------------------------------------------------
(* enum ParseError *)

UnexpectedEof == <<"UnexpectedEof">>
FromUtf8Error == <<"FromUtf8Error">>
ParseIntError == <<"ParseIntError">>
UnexpectedByte(b) == <<"UnexpectedByte", b>>
UnforeseenError == <<"UnforeseenError">>

(* enum RespType; Option<Vec<u8>> is None = <<>> or Some(b) = <<b>> *)

None == <<>>
Some(b) == <<b>>
SimpleString(s) == [tag |-> "SimpleString", s |-> s]
Error(s) == [tag |-> "Error", s |-> s]
Integer(n) == [tag |-> "Integer", n |-> n]
BulkString(bulk) == [tag |-> "BulkString", bulk |-> bulk]
Array(items) == [tag |-> "Array", items |-> items]

(* Result<(rem, val), ParseError>, and the abort of the call by a panic *)

Ok(rem, val) == [kind |-> "Ok", rem |-> rem, val |-> val]
Err(e) == [kind |-> "Err", err |-> e]
Panic(msg) == [kind |-> "Panic", msg |-> msg]

----------------------------------------------------------------------------
(* Library functions the codec calls *)

Drop(s, n) == SubSeq(s, n + 1, Len(s))
Take(s, n) == SubSeq(s, 1, n)

IsCont(b) == b >= 128 /\ b <= 191

\* String::from_utf8(line).is_ok(): the UTF-8 well-formedness of a byte
\* sequence (Unicode table 3-7).
RECURSIVE Utf8Valid(_)
Utf8Valid(line) ==
    IF line = <<>> THEN TRUE
    ELSE LET b == line[1]
             n == Len(line)
         IN  IF b < 128 THEN Utf8Valid(Drop(line, 1))
             ELSE IF b >= 194 /\ b <= 223
                  THEN n >= 2 /\ IsCont(line[2]) /\ Utf8Valid(Drop(line, 2))
             ELSE IF b >= 224 /\ b <= 239
                  THEN /\ n >= 3
                       /\ IsCont(line[2])
                       /\ IsCont(line[3])
                       /\ (b = 224 => line[2] >= 160)
                       /\ (b = 237 => line[2] <= 159)
                       /\ Utf8Valid(Drop(line, 3))
             ELSE IF b >= 240 /\ b <= 244
                  THEN /\ n >= 4
                       /\ IsCont(line[2])
                       /\ IsCont(line[3])
                       /\ IsCont(line[4])
                       /\ (b = 240 => line[2] >= 144)
                       /\ (b = 244 => line[2] <= 143)
                       /\ Utf8Valid(Drop(line, 4))
             ELSE FALSE

IsDigit(b) == b >= ZERO /\ b <= NINE

\* The digit loop of <i64 as FromStr>::from_str: checked_mul(10), then
\* checked_add for a positive and checked_sub for a negative number.
RECURSIVE parse_digits(_, _, _)
parse_digits(digits, acc, neg) ==
    IF digits = <<>> THEN [ok |-> TRUE, n |-> acc]
    ELSE IF ~IsDigit(digits[1]) THEN [ok |-> FALSE, n |-> 0]
    ELSE LET mul == acc * 10
             d == digits[1] - ZERO
             nxt == IF neg THEN mul - d ELSE mul + d
         IN  IF mul > I64_MAX \/ mul < I64_MIN THEN [ok |-> FALSE, n |-> 0]
             ELSE IF nxt > I64_MAX \/ nxt < I64_MIN THEN [ok |-> FALSE, n |-> 0]
             ELSE parse_digits(Drop(digits, 1), nxt, neg)

\* a faulty parse_i64: the empty string is read as 0
parse_i64_empty_zero(s) ==
    IF s = <<>> THEN [ok |-> TRUE, n |-> 0]
    ELSE IF Len(s) = 1 /\ s[1] \in {PLUS, MINUS} THEN [ok |-> FALSE, n |-> 0]
    ELSE IF s[1] = PLUS THEN parse_digits(Drop(s, 1), 0, FALSE)
    ELSE IF s[1] = MINUS THEN parse_digits(Drop(s, 1), 0, TRUE)
    ELSE parse_digits(s, 0, FALSE)

\* str::parse::<i64>(): empty, a lone sign, a non-digit and an overflow are
\* errors; one leading '+' or '-' is accepted.
parse_i64(s) ==
    IF s = <<>> THEN [ok |-> FALSE, n |-> 0]
    ELSE IF Len(s) = 1 /\ s[1] \in {PLUS, MINUS} THEN [ok |-> FALSE, n |-> 0]
    ELSE IF s[1] = PLUS THEN parse_digits(Drop(s, 1), 0, FALSE)
    ELSE IF s[1] = MINUS THEN parse_digits(Drop(s, 1), 0, TRUE)
    ELSE parse_digits(s, 0, FALSE)

\* Display of an unsigned number: its decimal digits
RECURSIVE fmt_unsigned(_)
fmt_unsigned(n) ==
    IF n < 10 THEN <<ZERO + n>>
    ELSE fmt_unsigned(n \div 10) \o <<ZERO + (n % 10)>>

\* a faulty fmt_i64: the sign is lost
fmt_i64_abs(n) == IF n < 0 THEN fmt_unsigned(-n) ELSE fmt_unsigned(n)

\* format!("{}", n) of an i64
fmt_i64(n) == IF n < 0 THEN <<MINUS>> \o fmt_unsigned(-n) ELSE fmt_unsigned(n)

\* `size as usize`: the two's complement reinterpretation
as_usize(size) == IF size < 0 THEN USIZE_MOD + size ELSE size

----------------------------------------------------------------------------
(* The decoder *)

\* bytes.windows(2).position(|window| window == b"\r\n"), 1-based; 0 = None
RECURSIVE position_from(_, _)
position_from(bs, i) ==
    IF i + 1 > Len(bs) THEN 0
    ELSE IF bs[i] = CR /\ bs[i + 1] = LF THEN i
    ELSE position_from(bs, i + 1)

\* a faulty read_line: the remainder starts at the terminator
read_line_keep_terminator(bs) ==
    LET position == position_from(bs, 1)
    IN  IF position # 0
        THEN Ok(Drop(bs, position - 1), Take(bs, position - 1))
        ELSE Err(UnexpectedEof)

read_line(bs) ==
    LET position == position_from(bs, 1)
    IN  IF position # 0
        THEN Ok(Drop(bs, position + 1), Take(bs, position - 1))
        ELSE Err(UnexpectedEof)

read_string(bs) ==
    LET r == read_line(bs)
    IN  IF r.kind # "Ok" THEN r
        ELSE IF ~Utf8Valid(r.val) THEN Err(FromUtf8Error)
        ELSE Ok(r.rem, SimpleString(r.val))

\* the size line of '$' and '*': from_utf8, then parse::<i64>
read_size(line) ==
    IF ~Utf8Valid(line) THEN Err(FromUtf8Error)
    ELSE LET p == parse_i64(line)
         IN  IF p.ok THEN Ok(<<>>, p.n) ELSE Err(ParseIntError)

\* faulty variants of read_bulk_string:
\*   "no_skip"     the remainder starts at size, not at end_idx
\*   "short_check" the length check forgets the two bytes after the payload
\*   "terminator"  the two bytes after the payload must be CR LF
read_bulk_string_variant(bs, variant) ==
    LET r == read_line(bs)
    IN  IF r.kind # "Ok" THEN r
        ELSE LET sz == read_size(r.val)
                 remaining == r.rem
             IN  IF sz.kind # "Ok" THEN sz
                 ELSE LET size == sz.val
                          end_idx == (as_usize(size) + 2) % USIZE_MOD
                          need == IF variant = "short_check" THEN as_usize(size)
                                  ELSE end_idx
                          from == IF variant = "no_skip" THEN as_usize(size)
                                  ELSE end_idx
                      IN  IF size = -1 THEN Ok(remaining, BulkString(None))
                          ELSE IF size < -1 THEN Panic("out of range")
                          ELSE IF Len(remaining) < need THEN Err(UnexpectedEof)
                          ELSE IF /\ variant = "terminator"
                                  /\ SubSeq(remaining, size + 1, size + 2) # CRLF
                               THEN Err(UnexpectedByte(remaining[size + 1]))
                          ELSE Ok(SubSeq(remaining, from + 1, Len(remaining)),
                                  BulkString(Some(Take(remaining, size))))

read_bulk_string_no_skip(bs) == read_bulk_string_variant(bs, "no_skip")
read_bulk_string_short_check(bs) == read_bulk_string_variant(bs, "short_check")
read_bulk_string_terminator(bs) == read_bulk_string_variant(bs, "terminator")

read_bulk_string(bs) ==
    LET r == read_line(bs)
    IN  IF r.kind # "Ok" THEN r
        ELSE LET sz == read_size(r.val)
                 remaining == r.rem
             IN  IF sz.kind # "Ok" THEN sz
                 ELSE LET size == sz.val
                          sum == as_usize(size) + 2
                          end_idx == sum % USIZE_MOD
                      IN  IF size = -1 THEN Ok(remaining, BulkString(None))
                          ELSE IF sum >= USIZE_MOD /\ build = BuildDebug
                               THEN Panic("attempt to add with overflow")
                          ELSE IF Len(remaining) < end_idx
                               THEN Err(UnexpectedEof)
                          ELSE IF as_usize(size) > Len(remaining)
                               THEN Panic("range end index out of range")
                          ELSE Ok(Drop(remaining, end_idx),
                                  BulkString(Some(Take(remaining, as_usize(size)))))

RECURSIVE from_bytes(_)
RECURSIVE read_array_loop(_, _, _, _)

\* a faulty read_array_loop: a failing element ends the loop and the
\* elements read so far are returned
read_array_loop_partial(bs, items, i, size) ==
    IF i >= size THEN Ok(bs, Array(items))
    ELSE LET r == from_bytes(bs)
         IN  IF r.kind # "Ok" THEN Ok(bs, Array(items))
             ELSE read_array_loop(r.rem, Append(items, r.val), i + 1, size)

\* for _ in 0..size { from_bytes(&bytes)?; ... }: i is the loop counter
read_array_loop(bs, items, i, size) ==
    IF i >= size THEN Ok(bs, Array(items))
    ELSE LET r == from_bytes(bs)
         IN  IF r.kind # "Ok" THEN r
             ELSE read_array_loop(r.rem, Append(items, r.val), i + 1, size)

read_array(bs) ==
    LET r == read_line(bs)
    IN  IF r.kind # "Ok" THEN r
        ELSE LET sz == read_size(r.val)
             IN  IF sz.kind # "Ok" THEN sz
                 ELSE read_array_loop(r.rem, <<>>, 0, sz.val)

from_bytes(bs) ==
    IF bs = <<>> THEN Err(UnexpectedEof)
    ELSE IF bs[1] = PLUS THEN read_string(Drop(bs, 1))
    ELSE IF bs[1] = MINUS
         THEN LET r == read_string(Drop(bs, 1))
              IN  IF r.kind # "Ok" THEN r
                  ELSE IF r.val.tag = "SimpleString"
                       THEN Ok(r.rem, Error(r.val.s))
                  ELSE Err(UnforeseenError)
    ELSE IF bs[1] = COLON
         THEN LET r == read_string(Drop(bs, 1))
              IN  IF r.kind # "Ok" THEN r
                  ELSE IF r.val.tag = "SimpleString"
                       THEN LET p == parse_i64(r.val.s)
                            IN  IF p.ok THEN Ok(r.rem, Integer(p.n))
                                ELSE Err(ParseIntError)
                  ELSE Err(UnforeseenError)
    ELSE IF bs[1] = DOLLAR THEN read_bulk_string(Drop(bs, 1))
    ELSE IF bs[1] = STAR THEN read_array(Drop(bs, 1))
    ELSE Err(UnexpectedByte(bs[1]))

\* The number of times the body of read_array's loop runs, over all
\* nested arrays, while from_bytes(bs) is evaluated.
RECURSIVE iterations(_)
RECURSIVE loop_iterations(_, _, _)

loop_iterations(bs, i, size) ==
    IF i >= size THEN 0
    ELSE LET r == from_bytes(bs)
         IN  1 + iterations(bs)
               + (IF r.kind # "Ok" THEN 0
                  ELSE loop_iterations(r.rem, i + 1, size))

iterations(bs) ==
    IF bs = <<>> \/ bs[1] # STAR THEN 0
    ELSE LET r == read_line(Drop(bs, 1))
         IN  IF r.kind # "Ok" THEN 0
             ELSE LET sz == read_size(r.val)
                  IN  IF sz.kind # "Ok" THEN 0
                      ELSE loop_iterations(r.rem, 0, sz.val)

----------------------------------------------------------------------------
(* The encoder *)

RECURSIVE as_bytes(_)
RECURSIVE extend_items(_, _)

\* for item in array { bytes.extend(item.as_bytes()); }
extend_items(bs, array) ==
    IF array = <<>> THEN bs
    ELSE extend_items(bs \o as_bytes(array[1]), Drop(array, 1))

\* faulty variants of as_bytes:
\*   "bulk_end"  no CR LF after the payload of a bulk string
\*   "error_tag" an Error is written with the tag of a SimpleString
as_bytes_variant(v, variant) ==
    IF v.tag = "SimpleString" THEN <<PLUS>> \o v.s \o CRLF
    ELSE IF v.tag = "Error"
         THEN <<IF variant = "error_tag" THEN PLUS ELSE MINUS>> \o v.s \o CRLF
    ELSE IF v.tag = "Integer" THEN <<COLON>> \o fmt_i64(v.n) \o CRLF
    ELSE IF v.tag = "BulkString"
         THEN IF v.bulk # None
              THEN <<DOLLAR>> \o fmt_unsigned(Len(v.bulk[1])) \o CRLF
                     \o v.bulk[1]
                     \o (IF variant = "bulk_end" THEN <<>> ELSE CRLF)
              ELSE <<DOLLAR, MINUS, ZERO + 1>> \o CRLF
    ELSE <<STAR>> \o fmt_unsigned(Len(v.items)) \o CRLF
           \o extend_items(<<>>, v.items)

as_bytes_bulk_end(v) == as_bytes_variant(v, "bulk_end")
as_bytes_error_tag(v) == as_bytes_variant(v, "error_tag")

as_bytes(v) ==
    IF v.tag = "SimpleString" THEN <<PLUS>> \o v.s \o CRLF
    ELSE IF v.tag = "Error" THEN <<MINUS>> \o v.s \o CRLF
    ELSE IF v.tag = "Integer" THEN <<COLON>> \o fmt_i64(v.n) \o CRLF
    ELSE IF v.tag = "BulkString"
         THEN IF v.bulk # None
              THEN <<DOLLAR>> \o fmt_unsigned(Len(v.bulk[1])) \o CRLF
                     \o v.bulk[1] \o CRLF
              ELSE <<DOLLAR, MINUS, ZERO + 1>> \o CRLF
    ELSE <<STAR>> \o fmt_unsigned(Len(v.items)) \o CRLF
           \o extend_items(<<>>, v.items)

----------------------------------------------------------------------------
(* The values a caller constructs and the buffers a caller receives *)

SeqsUpTo(S, n) == UNION {[1..k -> S] : k \in 0..n}

RECURSIVE Concat(_)
Concat(chunks) ==
    IF chunks = <<>> THEN <<>> ELSE chunks[1] \o Concat(Drop(chunks, 1))

\* A String holds valid UTF-8 and nothing else restricts it: the variants
\* of RespType are public, so a text may hold CR, LF and CR LF.
TextBytes == {LETTER_A, CR, LF, E_ACUTE_1, E_ACUTE_2}
Texts == {t \in SeqsUpTo(TextBytes, MaxText) : Utf8Valid(t)}

BulkBytes == {LETTER_A, CR, LF, BAD}
Bulks == SeqsUpTo(BulkBytes, MaxBulk)

Leaves ==
    {SimpleString(t) : t \in Texts} \cup {Error(t) : t \in Texts}
        \cup {Integer(n) : n \in I64_MIN..I64_MAX}
        \cup {BulkString(None)} \cup {BulkString(Some(b)) : b \in Bulks}

Items ==
    { SimpleString(<<LETTER_A>>), SimpleString(CRLF), Error(<<>>),
      Integer(-1), BulkString(None), BulkString(Some(CRLF)) }

InnerArrays == {Array(<<>>), Array(<<Integer(I64_MAX)>>),
                Array(<<Error(<<LETTER_A>>), Array(<<>>)>>)}

Arrays == {Array(s) : s \in SeqsUpTo(Items \cup InnerArrays, MaxArray)}

Values == Leaves \cup Arrays

Seconds == {SimpleString(CRLF), BulkString(None), Array(<<Integer(-1)>>)}
Tails == { <<>>, <<CR>>, <<PLUS, LETTER_A, CR, LF>> }

\* ':' line CR LF rest
LineBytes == {MINUS, PLUS, ZERO, ZERO + 1, ZERO + 2, ZERO + 3, SPACE, BAD}
IntegerInputs ==
    { <<COLON>> \o line \o CRLF \o rest :
        line \in SeqsUpTo(LineBytes, MaxLine), rest \in {<<>>, <<LETTER_A>>} }

\* '$' size CR LF rest
SizeLines ==
    {fmt_i64(n) : n \in {I64_MIN, -3, -2, -1, 0, 1, 2, 3, I64_MAX}}
        \cup { <<MINUS, ZERO>>, <<PLUS, ZERO + 1>>, <<>>, <<LETTER_A>>, <<BAD>> }
RestBytes == {CR, LF, BAD}
BulkInputs ==
    { <<DOLLAR>> \o line \o CRLF \o rest :
        line \in SizeLines, rest \in SeqsUpTo(RestBytes, MaxRest) }

\* '*' count CR LF chunks
CountLines ==
    {fmt_i64(n) : n \in {-2, -1, 0, 1, 2, 3, I64_MAX}} \cup { <<LETTER_A>> }
Chunks ==
    { <<PLUS, LETTER_A, CR, LF>>, <<DOLLAR, MINUS, ZERO + 1, CR, LF>>,
      <<STAR, ZERO + 1, CR, LF>>, <<STAR, MINUS, ZERO + 1, CR, LF>>,
      <<PLUS, LETTER_A>>, <<QUESTION>>,
      <<DOLLAR, MINUS, ZERO + 2, CR, LF>> }
ArrayInputs ==
    { <<STAR>> \o line \o CRLF \o Concat(cs) :
        line \in CountLines, cs \in SeqsUpTo(Chunks, MaxChunks) }

RawBytes == {PLUS, MINUS, COLON, DOLLAR, STAR, CR, LF, ZERO + 1, QUESTION}
RawInputs == SeqsUpTo(RawBytes, MaxRaw)

Inputs == IntegerInputs \cup BulkInputs \cup ArrayInputs \cup RawInputs

----------------------------------------------------------------------------
(* The caller: it constructs a value or receives a buffer, and calls the   *)
(* codec                                                                   *)

NoValue == [tag |-> "NoValue"]
NoResult == [kind |-> "NoResult"]

Last(h) == h[Len(h)]

\* the caller constructs a value
InitValue ==
    /\ self \in Values
    /\ bytes = <<>>
    /\ input = <<>>
    /\ hist = <<"new">>

\* the caller receives a buffer
InitBuffer ==
    /\ self = NoValue
    /\ input \in Inputs
    /\ bytes = input
    /\ hist = <<"recv">>

Init ==
    /\ InitValue \/ InitBuffer
    /\ ret = NoResult
    /\ v2 = NoValue
    /\ tail = <<>>
    /\ build \in Builds

\* let bytes = self.as_bytes();
AsBytes ==
    /\ hist = <<"new">>
    /\ bytes' = as_bytes(self)
    /\ hist' = Append(hist, "as_bytes")
    /\ UNCHANGED <<self, ret, v2, tail, build, input>>

\* the caller appends a second encoded value and further bytes
Pipeline ==
    /\ hist = <<"new", "as_bytes">>
    /\ \E w \in Seconds, t \in Tails :
          /\ bytes' = bytes \o as_bytes(w) \o t
          /\ v2' = w
          /\ tail' = t
    /\ hist' = Append(hist, "pipeline")
    /\ UNCHANGED <<self, ret, build, input>>

\* the last byte of the encoding is lost
Truncate ==
    /\ hist = <<"new", "as_bytes">>
    /\ bytes' = Take(bytes, Len(bytes) - 1)
    /\ hist' = Append(hist, "truncate")
    /\ UNCHANGED <<self, ret, v2, tail, build, input>>

\* let result = RespType::from_bytes(&bytes);
FromBytes ==
    /\ Last(hist) \notin {"new", "from_bytes"}
    /\ ret' = from_bytes(bytes)
    /\ hist' = Append(hist, "from_bytes")
    /\ UNCHANGED <<self, bytes, v2, tail, build, input>>

\* the caller goes on with the remainder a decode returned
Advance ==
    /\ hist[1] = "recv"
    /\ Last(hist) = "from_bytes"
    /\ \A i \in 1..Len(hist) : hist[i] # "reencode"
    /\ ret.kind = "Ok"
    /\ ret.rem # <<>>
    /\ bytes' = ret.rem
    /\ hist' = Append(hist, "advance")
    /\ UNCHANGED <<self, ret, v2, tail, build, input>>

\* the caller encodes the value a decode returned
Reencode ==
    /\ hist = <<"recv", "from_bytes">>
    /\ ret.kind = "Ok"
    /\ self' = ret.val
    /\ bytes' = as_bytes(ret.val)
    /\ hist' = Append(hist, "reencode")
    /\ UNCHANGED <<ret, v2, tail, build, input>>

Next == AsBytes \/ Pipeline \/ Truncate \/ FromBytes \/ Advance \/ Reencode

Spec == Init /\ [][Next]_vars

----------------------------------------------------------------------------
(* Properties *)

RoundTripped == hist = <<"new", "as_bytes", "from_bytes">>
Pipelined == hist = <<"new", "as_bytes", "pipeline", "from_bytes">>
Truncated == hist = <<"new", "as_bytes", "truncate", "from_bytes">>
Received == hist = <<"recv", "from_bytes">>
Redecoded == hist = <<"recv", "from_bytes", "reencode", "from_bytes">>

HasCrlf(t) == \E i \in 1..(Len(t) - 1) : t[i] = CR /\ t[i + 1] = LF

\* no SimpleString or Error text of v, at any depth, holds CR LF
RECURSIVE TextsFramed(_)
TextsFramed(v) ==
    IF v.tag \in {"SimpleString", "Error"} THEN ~HasCrlf(v.s)
    ELSE IF v.tag = "Array"
         THEN \A i \in 1..Len(v.items) : TextsFramed(v.items[i])
    ELSE TRUE

IsSuffix(r, b) == Len(r) <= Len(b) /\ r = Drop(b, Len(b) - Len(r))

\* C1 as stated: every constructed value, whatever its texts, decodes from
\* its own encoding to itself with an empty remainder.
C1_RoundTripAnyText == RoundTripped => ret = Ok(<<>>, self)

\* C1, amended: every constructed value whose SimpleString and Error texts
\* hold no CR LF decodes from its own encoding to itself, with an empty
\* remainder.
C1_RoundTrip == (RoundTripped /\ TextsFramed(self)) => ret = Ok(<<>>, self)

C1_Witness ==
    /\ RoundTripped
    /\ TextsFramed(self)
    /\ self.tag = "Array"
    /\ Len(self.items) = 2
    /\ self.items[2].tag = "Array"
    /\ ret.kind = "Ok"

\* C2 as stated: for all values v1, v2 and every tail, decoding
\* enc(v1) ++ enc(v2) ++ tail gives v1 and the remainder enc(v2) ++ tail.
C2_PipeliningAnyText == Pipelined => ret = Ok(as_bytes(v2) \o tail, self)

\* C2, amended: for every v1 whose SimpleString and Error texts hold no
\* CR LF, every v2 and every tail, decoding enc(v1) ++ enc(v2) ++ tail gives
\* v1 and the remainder enc(v2) ++ tail.
C2_Pipelining ==
    (Pipelined /\ TextsFramed(self)) => ret = Ok(as_bytes(v2) \o tail, self)

C2_Witness ==
    /\ Pipelined
    /\ TextsFramed(self)
    /\ self.tag = "BulkString"
    /\ self.bulk = Some(CRLF)
    /\ ~TextsFramed(v2)
    /\ tail = <<CR>>
    /\ ret.kind = "Ok"

\* C3 as stated: the encoding of any value, less its last byte, decodes to
\* Err(UnexpectedEof).
C3_TruncationAnyText == Truncated => ret = Err(UnexpectedEof)

\* C3, amended: the encoding of any value whose SimpleString and Error
\* texts hold no CR LF, less its last byte, decodes to Err(UnexpectedEof).
C3_Truncation == (Truncated /\ TextsFramed(self)) => ret = Err(UnexpectedEof)

C3_Witness ==
    /\ Truncated
    /\ TextsFramed(self)
    /\ self.tag = "Array"
    /\ Len(self.items) = 2
    /\ self.items[2] = BulkString(Some(CRLF))
    /\ ret = Err(UnexpectedEof)

\* a call of from_bytes has just returned: bytes is its argument, ret its
\* result
Decoded == Last(hist) = "from_bytes"

\* the line after the tag byte of bytes and what follows its CR LF
HeaderLine == read_line(Drop(bytes, 1))
\* the size the header line of bytes parses to
HeaderSize == read_size(HeaderLine.val)

Tagged(tag) == Decoded /\ bytes # <<>> /\ bytes[1] = tag /\ HeaderLine.kind = "Ok"
Sized(tag) == Tagged(tag) /\ HeaderSize.kind = "Ok"

\* C4: from_bytes is total: every call returns Ok or Err and none aborts; a
\* '$' header with a negative size other than -1 yields an Err.
C4_Total == Decoded => ret.kind \in {"Ok", "Err"}

RECURSIVE DigitsValue(_)
DigitsValue(d) ==
    IF d = <<>> THEN 0
    ELSE DigitsValue(Take(d, Len(d) - 1)) * 10 + (d[Len(d)] - ZERO)

DigitsOnly(d) == d # <<>> /\ \A i \in 1..Len(d) : IsDigit(d[i])

\* d is the decimal representation of n: no sign, no leading zero
IsDecimalOf(d, n) ==
    /\ DigitsOnly(d)
    /\ Len(d) > 1 => d[1] # ZERO
    /\ DigitsValue(d) = n

\* d is the decimal representation of n, with '-' before a negative one
IsSignedDecimalOf(d, n) ==
    IF n < 0 THEN d # <<>> /\ d[1] = MINUS /\ IsDecimalOf(Drop(d, 1), -n)
    ELSE IsDecimalOf(d, n)

\* bs is tag, the decimal representation of n, CR LF and body
IsHeaderAndBody(bs, tag, n, body) ==
    \E k \in 2..Len(bs) :
        /\ bs[1] = tag
        /\ IsDecimalOf(SubSeq(bs, 2, k), n)
        /\ Drop(bs, k) = CRLF \o body

\* bs is the RESP encoding of v, the encodings of the items of an array
\* being given by as_bytes
IsWireFormOf(bs, v) ==
    IF v.tag = "SimpleString" THEN bs = <<PLUS>> \o v.s \o CRLF
    ELSE IF v.tag = "Error" THEN bs = <<MINUS>> \o v.s \o CRLF
    ELSE IF v.tag = "Integer"
         THEN /\ Len(bs) >= 4
              /\ bs[1] = COLON
              /\ IsSignedDecimalOf(SubSeq(bs, 2, Len(bs) - 2), v.n)
              /\ Drop(bs, Len(bs) - 2) = CRLF
    ELSE IF v.tag = "BulkString"
         THEN IF v.bulk = None THEN bs = <<DOLLAR, MINUS, ZERO + 1, CR, LF>>
              ELSE IsHeaderAndBody(bs, DOLLAR, Len(v.bulk[1]), v.bulk[1] \o CRLF)
    ELSE IsHeaderAndBody(bs, STAR, Len(v.items),
                         Concat([i \in 1..Len(v.items) |-> as_bytes(v.items[i])]))

\* C5: as_bytes produces exactly the RESP wire bytes of every value: tag,
\* text or decimal number, CR LF, and for a bulk string the payload and
\* CR LF, for an array the encodings of its items in order.
C5_WireFormat ==
    hist = <<"new", "as_bytes">> =>
        /\ IsWireFormOf(bytes, self)
        /\ self.tag = "Array" =>
              \A i \in 1..Len(self.items) :
                  IsWireFormOf(as_bytes(self.items[i]), self.items[i])

C5_Witness ==
    /\ hist = <<"new", "as_bytes">>
    /\ self = Array(<<Integer(-1), BulkString(Some(CRLF))>>)
    /\ bytes = <<STAR, ZERO + 2, CR, LF, COLON, MINUS, ZERO + 1, CR, LF,
                 DOLLAR, ZERO + 2, CR, LF, CR, LF, CR, LF>>

\* C6: every value from_bytes returns, encoded and decoded again, gives the
\* same value and an empty remainder; no SimpleString or Error text of a
\* value from_bytes returns holds CR LF.
C6_CanonicalInverse ==
    /\ Redecoded => ret = Ok(<<>>, self)
    /\ (Decoded /\ ret.kind = "Ok") => TextsFramed(ret.val)

C6_Witness ==
    /\ Redecoded
    /\ input = <<STAR, MINUS, ZERO + 1, CR, LF, PLUS, LETTER_A, CR, LF>>
    /\ self = Array(<<>>)
    /\ bytes = <<STAR, ZERO, CR, LF>>
    /\ ret = Ok(<<>>, Array(<<>>))

\* the results of decoding up to n consecutive values of bs, ending with
\* the first that is not Ok
RECURSIVE ElementResults(_, _)
ElementResults(bs, n) ==
    IF n <= 0 THEN <<>>
    ELSE LET r == from_bytes(bs)
         IN  IF r.kind # "Ok" THEN <<r>>
             ELSE <<r>> \o ElementResults(r.rem, n - 1)

\* C7: array decode respects the declared count n: a negative n gives the
\* empty Array and the remainder after the size line; otherwise success is
\* the Array of the n consecutive decoded values and the remainder after the
\* n-th, and the first failing element's error is the result of the whole.
C7_ArrayCount ==
    Sized(STAR) =>
        LET n == HeaderSize.val
            rest == HeaderLine.rem
            rs == ElementResults(rest, n)
        IN  IF n <= 0 THEN ret = Ok(rest, Array(<<>>))
            ELSE IF rs[Len(rs)].kind = "Ok"
                 THEN /\ Len(rs) = n
                      /\ ret = Ok(rs[n].rem, Array([i \in 1..n |-> rs[i].val]))
                      /\ Len(ret.val.items) = n
                 ELSE rs[Len(rs)].kind = "Err" => ret = rs[Len(rs)]

C7_Witness ==
    /\ Sized(STAR)
    /\ HeaderSize.val = 2
    /\ ret.kind = "Ok"
    /\ Len(ret.val.items) = 2
    /\ ret.val.items[1].tag = "Array"
    /\ ret.rem # <<>>

\* line is an optional sign of signs and one or more decimal digits
IsNumeral(line, signs) ==
    IF line # <<>> /\ line[1] \in signs THEN DigitsOnly(Drop(line, 1))
    ELSE DigitsOnly(line)

NumeralValue(line) ==
    IF line[1] = MINUS THEN -DigitsValue(Drop(line, 1))
    ELSE IF line[1] = PLUS THEN DigitsValue(Drop(line, 1))
    ELSE DigitsValue(line)

\* ':' line CR LF rest, line valid UTF-8, decodes to Ok(rest, Integer(n))
\* when line is a numeral with a sign of signs and its value n fits i64,
\* and to Err(ParseIntError) otherwise
IntegerDecode(signs) ==
    (Tagged(COLON) /\ Utf8Valid(HeaderLine.val)) =>
        LET line == HeaderLine.val
        IN  IF /\ IsNumeral(line, signs)
               /\ NumeralValue(line) >= I64_MIN
               /\ NumeralValue(line) <= I64_MAX
            THEN ret = Ok(HeaderLine.rem, Integer(NumeralValue(line)))
            ELSE ret = Err(ParseIntError)

\* C8 as stated: integer decode accepts exactly an optional '-' and decimal
\* digits within i64; every other valid UTF-8 line, one with a leading '+'
\* included, gives Err(ParseIntError).
C8_IntegerMinusOnly == IntegerDecode({MINUS})

\* C8, amended: integer decode accepts exactly an optional '-' or '+' and
\* decimal digits within i64; every other valid UTF-8 line gives
\* Err(ParseIntError).
C8_IntegerDecode == IntegerDecode({MINUS, PLUS})

C8_Witness ==
    /\ Tagged(COLON)
    /\ HeaderLine.val = <<PLUS>> \o fmt_i64(I64_MAX)
    /\ ret = Ok(<<LETTER_A>>, Integer(I64_MAX))

\* C9: bulk-string decode is length-exact and binary-safe: with size n >= 0
\* and rest after the size line, Err(UnexpectedEof) when rest has fewer than
\* n + 2 bytes, else the first n bytes verbatim and the remainder after two
\* more bytes, whatever they are; size -1 gives None and the remainder after
\* the size line.
C9_BulkDecode ==
    Sized(DOLLAR) =>
        LET n == HeaderSize.val
            rest == HeaderLine.rem
        IN  /\ (n >= 0 /\ Len(rest) < n + 2) => ret = Err(UnexpectedEof)
            /\ (n >= 0 /\ Len(rest) >= n + 2) =>
                  ret = Ok(SubSeq(rest, n + 3, Len(rest)),
                           BulkString(Some(SubSeq(rest, 1, n))))
            /\ n = -1 => ret = Ok(rest, BulkString(None))

C9_Witness ==
    /\ Sized(DOLLAR)
    /\ HeaderSize.val = 1
    /\ HeaderLine.rem = <<BAD, LF, BAD, CR>>
    /\ ret = Ok(<<CR>>, BulkString(Some(<<BAD>>)))

Advances == Cardinality({i \in 1..Len(hist) : hist[i] = "advance"})

\* C10: a successful decode returns a proper suffix of its input, at least
\* 3 bytes shorter; a caller decoding remainder after remainder has consumed
\* at least 3 bytes per call; and the array loop of one decode runs at most
\* len(input) times whatever the declared count.
C10_Progress ==
    Decoded =>
        /\ ret.kind = "Ok" =>
              /\ IsSuffix(ret.rem, bytes)
              /\ Len(ret.rem) + 3 <= Len(bytes)
        /\ (hist[1] = "recv" /\ ~Redecoded) =>
              /\ IsSuffix(bytes, input)
              /\ 3 * Advances <= Len(input) - Len(bytes)
        /\ iterations(bytes) <= Len(bytes)

C10_Witness ==
    /\ Decoded
    /\ bytes = <<STAR>> \o fmt_i64(I64_MAX) \o CRLF
                 \o <<PLUS, LETTER_A, CR, LF, STAR, ZERO + 1, CR, LF,
                      PLUS, LETTER_A, CR, LF>>
    /\ iterations(bytes) = 4
    /\ ret = Err(UnexpectedEof)

====
